---- MODULE Spec2Model ----
(***************************************************************************)
(* bounded_while_loop (src/src/jax_bounded_while/__init__.py): a while     *)
(* loop emulated by a fixed-length lax.scan over a carry augmented with a  *)
(* `done` latch, followed by an equinox.error_if guard.                    *)
(*                                                                         *)
(* A call is modelled at the level of the executed program: lax.scan runs  *)
(* scan_step `length` times in sequence, lax.cond executes exactly one of  *)
(* its two branches, eqx.error_if returns its value poisoned with a        *)
(* RuntimeError when its predicate is true.  `calls` logs the executions   *)
(* of cond_fn and body_fn, `carries` the augmented states of the scan.     *)
(***************************************************************************)
EXTENDS Integers, Sequences, FiniteSets, TLC

\* Loop carries are the integers 0..MaxVal; cond_fn and body_fn range over
\* every function on them.
MaxVal == 2
\* Largest integer max_steps tried.
MaxSteps == 4
\* Carries of the two-call specification are 0..PairMaxVal.
PairMaxVal == 1

VARIABLES
    cond_fn,    \* per call: the cond_fn argument, a function carry -> BOOLEAN
    body_fn,    \* per call: the body_fn argument, a function carry -> carry
    init_val,   \* per call: the init_val argument
    max_steps,  \* per call: the max_steps argument, a typed Python value
    pc,         \* per call: "entry", "scan", "returned" or "raised"
    carries,    \* per call: the scan carries so far, init_carry first
    calls,      \* per call: the executions of cond_fn / body_fn, in order
    outcome     \* per call: what the call produced

vars == <<cond_fn, body_fn, init_val, max_steps, pc, carries, calls, outcome>>

----------------------------------------------------------------------------
\* Python values passed as max_steps: the ints -2..MaxSteps, the floats 1.5
\* and 2.0, the str "3".

PyInt(n) == [type |-> "int", num |-> n, den |-> 1]

MaxStepsArgs ==
    {PyInt(n) : n \in -2..MaxSteps}
        \cup {[type |-> "float", num |-> 3, den |-> 2],
              [type |-> "float", num |-> 2, den |-> 1],
              [type |-> "str", num |-> 3, den |-> 1]}

LoopCarry == 0..MaxVal
PairCarry == 0..PairMaxVal

\* The messages, word by word.
ValueErrorMsg ==
    <<"max_steps", "must", "be", "a", "non-negative", "Python", "int.">>
ExceededMsg ==
    <<"bounded_while_loop", "exceeded", "max_steps", "without", "cond_fn",
      "becoming", "False.">>

Last(s) == s[Len(s)]

----------------------------------------------------------------------------
\* The function body.

\* Variant: the sign test left out.
invalid_max_steps_unsigned(m) == m.type # "int"

\* `not isinstance(max_steps, int) or max_steps < 0`
invalid_max_steps(m) == m.type # "int" \/ m.num < 0

\* Variant: no short cut for max_steps == 0.
trivial_bound_never(m) == FALSE

\* `max_steps == 0`
trivial_bound(m) == m.num = 0

\* Each branch of a lax.cond yields its output carry and the executions of
\* the user functions it made; c is the call whose closure the branch is.
\* Variant: an eager select, which runs body_fn and discards its result.
already_done_eager(c, carry) ==
    [out |-> carry, calls |-> <<[fn |-> "body_fn", arg |-> carry.val]>>]

\* Variant: the no-op branch clears done.
already_done_resets(c, carry) ==
    [out |-> [val |-> carry.val, done |-> FALSE], calls |-> <<>>]

\* Variant: the carry keeps changing after termination.
already_done_applies_body(c, carry) ==
    [out |-> [val |-> body_fn[c][carry.val], done |-> TRUE],
     calls |-> <<[fn |-> "body_fn", arg |-> carry.val]>>]

\* Variant: the no-op branch still evaluates cond_fn.
already_done_checks_cond(c, carry) ==
    [out |-> carry, calls |-> <<[fn |-> "cond_fn", arg |-> carry.val]>>]

already_done(c, carry) == [out |-> carry, calls |-> <<>>]

\* Variant: the continuing branch sets done.
do_body_marks_done(c, val) ==
    [out |-> [val |-> body_fn[c][val], done |-> TRUE],
     calls |-> <<[fn |-> "body_fn", arg |-> val]>>]

do_body(c, val) ==
    [out |-> [val |-> body_fn[c][val], done |-> FALSE],
     calls |-> <<[fn |-> "body_fn", arg |-> val]>>]

\* Variant: the terminating step applies body_fn once more.
stop_now_runs_body(c, val) ==
    [out |-> [val |-> body_fn[c][val], done |-> TRUE],
     calls |-> <<[fn |-> "body_fn", arg |-> val]>>]

stop_now(c, val) == [out |-> [val |-> val, done |-> TRUE], calls |-> <<>>]

\* Variant: cond_fn is evaluated again for the branch predicate.
not_done_rechecks(c, val) ==
    LET continue_ == cond_fn[c][val]
        branch == IF continue_ THEN do_body(c, val) ELSE stop_now(c, val)
    IN  [out |-> branch.out,
         calls |-> <<[fn |-> "cond_fn", arg |-> val],
                     [fn |-> "cond_fn", arg |-> val]>> \o branch.calls]

\* Variant: a select over both branch outputs, each branch computed.
not_done_select(c, val) ==
    LET continue_ == cond_fn[c][val]
    IN  [out |-> IF continue_ THEN do_body(c, val).out
                              ELSE stop_now(c, val).out,
         calls |-> <<[fn |-> "cond_fn", arg |-> val]>>
                       \o do_body(c, val).calls \o stop_now(c, val).calls]

\* cond_fn returns a boolean, which jnp.asarray(..., dtype=bool) keeps.
not_done(c, val) ==
    LET continue_ == cond_fn[c][val]
        branch == IF continue_ THEN do_body(c, val) ELSE stop_now(c, val)
    IN  [out |-> branch.out,
         calls |-> <<[fn |-> "cond_fn", arg |-> val]>> \o branch.calls]

scan_step(c, carry) ==
    IF carry.done THEN already_done(c, carry) ELSE not_done(c, carry.val)

\* Variant: a done flag kept outside the carry, where other calls write it.
init_carry_global_done(c) ==
    [val |-> init_val[c],
     done |-> \E d \in DOMAIN pc \ {c} :
                 carries[d] # <<>> /\ carries[d][Len(carries[d])].done]

init_carry(c) == [val |-> init_val[c], done |-> FALSE]

\* Variant: the scan is one step short.
scan_length_short(c) == max_steps[c].num - 1

\* Variant: the scan takes one step more, to notice the stop.
scan_length_plus_one(c) == max_steps[c].num + 1

\* `length=max_steps`
scan_length(c) == max_steps[c].num

\* eqx.error_if(x, pred, msg): x, poisoned with the error when pred is true.
error_if(x, pred, msg) ==
    [kind |-> IF pred THEN "RuntimeError" ELSE "value",
     val |-> <<x>>,
     msg |-> IF pred THEN msg ELSE <<>>]

\* Variant: the final done flag is not looked at.
guard_unchecked(final) == error_if(final.val, FALSE, ExceededMsg)

\* What the overflow guard makes of the final carry.
guard(final) == error_if(final.val, ~final.done, ExceededMsg)

----------------------------------------------------------------------------
\* Actions of one call c.

RaiseValueError(c) ==
    /\ pc[c] = "entry"
    /\ invalid_max_steps(max_steps[c])
    /\ pc' = [pc EXCEPT ![c] = "raised"]
    /\ outcome' = [outcome EXCEPT
                      ![c] = [kind |-> "ValueError", val |-> <<>>,
                              msg |-> ValueErrorMsg]]
    /\ UNCHANGED <<cond_fn, body_fn, init_val, max_steps, carries, calls>>

ReturnInit(c) ==
    /\ pc[c] = "entry"
    /\ ~invalid_max_steps(max_steps[c])
    /\ trivial_bound(max_steps[c])
    /\ pc' = [pc EXCEPT ![c] = "returned"]
    /\ outcome' = [outcome EXCEPT
                      ![c] = [kind |-> "value", val |-> <<init_val[c]>>,
                              msg |-> <<>>]]
    /\ UNCHANGED <<cond_fn, body_fn, init_val, max_steps, carries, calls>>

Augment(c) ==
    /\ pc[c] = "entry"
    /\ ~invalid_max_steps(max_steps[c])
    /\ ~trivial_bound(max_steps[c])
    /\ carries' = [carries EXCEPT ![c] = <<init_carry(c)>>]
    /\ pc' = [pc EXCEPT ![c] = "scan"]
    /\ UNCHANGED <<cond_fn, body_fn, init_val, max_steps, calls, outcome>>

ScanStep(c) ==
    /\ pc[c] = "scan"
    /\ Len(carries[c]) - 1 < scan_length(c)
    /\ LET step == scan_step(c, Last(carries[c]))
       IN  /\ carries' = [carries EXCEPT ![c] = Append(@, step.out)]
           /\ calls' = [calls EXCEPT ![c] = @ \o step.calls]
    /\ UNCHANGED <<cond_fn, body_fn, init_val, max_steps, pc, outcome>>

Guard(c) ==
    /\ pc[c] = "scan"
    /\ Len(carries[c]) - 1 >= scan_length(c)
    /\ outcome' = [outcome EXCEPT ![c] = guard(Last(carries[c]))]
    /\ pc' = [pc EXCEPT ![c] = "returned"]
    /\ UNCHANGED <<cond_fn, body_fn, init_val, max_steps, carries, calls>>

Pending == [kind |-> "pending", val |-> <<>>, msg |-> <<>>]

----------------------------------------------------------------------------
\* One call, every cond_fn, body_fn, init_val over the carries and every
\* max_steps argument.

Init ==
    \E cf \in [LoopCarry -> BOOLEAN], bf \in [LoopCarry -> LoopCarry],
       iv \in LoopCarry, ms \in MaxStepsArgs :
        /\ cond_fn = [c \in {"a"} |-> cf]
        /\ body_fn = [c \in {"a"} |-> bf]
        /\ init_val = [c \in {"a"} |-> iv]
        /\ max_steps = [c \in {"a"} |-> ms]
        /\ pc = [c \in {"a"} |-> "entry"]
        /\ carries = [c \in {"a"} |-> <<>>]
        /\ calls = [c \in {"a"} |-> <<>>]
        /\ outcome = [c \in {"a"} |-> Pending]

Next ==
    \/ \E c \in DOMAIN pc : RaiseValueError(c)
    \/ \E c \in DOMAIN pc : ReturnInit(c)
    \/ \E c \in DOMAIN pc : Augment(c)
    \/ \E c \in DOMAIN pc : ScanStep(c)
    \/ \E c \in DOMAIN pc : Guard(c)

Spec == Init /\ [][Next]_vars

\* Two calls with the same cond_fn, body_fn and max_steps, each on a carry
\* of its own, their steps interleaved in every order.
PairInit ==
    \E cf \in [PairCarry -> BOOLEAN], bf \in [PairCarry -> PairCarry],
       iv \in [{"a", "b"} -> PairCarry], ms \in MaxStepsArgs :
        /\ cond_fn = [c \in {"a", "b"} |-> cf]
        /\ body_fn = [c \in {"a", "b"} |-> bf]
        /\ init_val = iv
        /\ max_steps = [c \in {"a", "b"} |-> ms]
        /\ pc = [c \in {"a", "b"} |-> "entry"]
        /\ carries = [c \in {"a", "b"} |-> <<>>]
        /\ calls = [c \in {"a", "b"} |-> <<>>]
        /\ outcome = [c \in {"a", "b"} |-> Pending]

SpecPair == PairInit /\ [][Next]_vars

\* One call that is never suspended: the function body runs to its return
\* or raise, lax.scan through all its steps.
LiveSpec == Init /\ [][Next]_vars /\ WF_vars(Next)

----------------------------------------------------------------------------
\* The loop the docstring says the function emulates:
\*   val = init_val; i = 0
\*   while cond_fn(val) and i < max_steps: val = body_fn(val); i += 1
RECURSIVE WhileRef(_, _, _)
WhileRef(c, val, i) ==
    IF cond_fn[c][val] /\ i < max_steps[c].num
    THEN WhileRef(c, body_fn[c][val], i + 1)
    ELSE val

----------------------------------------------------------------------------
\* Vocabulary of the properties.

\* body_fn of call c applied n times to init_val.
RECURSIVE Iterate(_, _)
Iterate(c, n) == IF n = 0 THEN init_val[c] ELSE body_fn[c][Iterate(c, n - 1)]

\* cond_fn holds on the first n iterates, init_val included.
CondHoldsBefore(c, n) == \A j \in 0..(n - 1) : cond_fn[c][Iterate(c, j)]

\* cond_fn first becomes false after exactly k applications of body_fn.
StopsAt(c, k) == CondHoldsBefore(c, k) /\ ~cond_fn[c][Iterate(c, k)]

\* The stopping steps a call of the model can have.
StoppingSteps == 0..(MaxVal + 1)

ValidMaxSteps(c) == max_steps[c].type = "int" /\ max_steps[c].num >= 0

Finished(c) == pc[c] \in {"returned", "raised"}

Ordinary(v) == [kind |-> "value", val |-> <<v>>, msg |-> <<>>]

Mentions(msg, word) == \E i \in DOMAIN msg : msg[i] = word

BodyCount(c) ==
    Cardinality({i \in DOMAIN calls[c] : calls[c][i].fn = "body_fn"})

\* The indices of the carries of call c whose done flag is set.
DoneAt(c) == {i \in DOMAIN carries[c] : carries[c][i].done}

FirstDone(c) == CHOOSE i \in DoneAt(c) : \A j \in DoneAt(c) : i <= j

----------------------------------------------------------------------------
\* C1: whenever cond_fn first becomes false after k applications of body_fn
\* and the integer max_steps is at least k, the finished call has returned
\* body_fn^k(init_val) as an ordinary value, with no bound-exceeded error.
C1_StopWithinBoundReturnsIterate ==
    \A c \in DOMAIN pc : \A k \in StoppingSteps :
        (/\ Finished(c)
         /\ ValidMaxSteps(c)
         /\ max_steps[c].num >= k
         /\ StopsAt(c, k))
            => outcome[c] = Ordinary(Iterate(c, k))

ReturnsFrozenOrFlagged(c) ==
    IF DoneAt(c) # {}
    THEN outcome[c] = Ordinary(carries[c][FirstDone(c)].val)
    ELSE /\ carries[c] # <<>>
         /\ ~Last(carries[c]).done
         /\ outcome[c].kind = "RuntimeError"
         /\ outcome[c].val = <<Last(carries[c]).val>>

\* C3, as stated: every returned call either had done set at some step and
\* returns, unflagged, the carry of the first such step, or never had done
\* set and returns the carry after its last step flagged bound-exceeded.
C3_ReturnedCarry_AnyRun ==
    \A c \in DOMAIN pc : pc[c] = "returned" => ReturnsFrozenOrFlagged(c)

\* C3, amended: the same of every returned call with max_steps >= 1; a call
\* with max_steps == 0 takes no step and returns init_val unflagged.
C3_ReturnedCarry ==
    \A c \in DOMAIN pc :
        pc[c] = "returned" =>
            IF max_steps[c].num >= 1
            THEN ReturnsFrozenOrFlagged(c)
            ELSE carries[c] = <<>> /\ outcome[c] = Ordinary(init_val[c])

\* done was set at a step followed by two more steps, after a body_fn
\* application that changed the carry.
C3_Witness ==
    \E c \in DOMAIN pc :
        /\ pc[c] = "returned"
        /\ DoneAt(c) # {}
        /\ FirstDone(c) + 2 <= Len(carries[c])
        /\ carries[c][FirstDone(c)].val # init_val[c]
        /\ body_fn[c][carries[c][FirstDone(c)].val]
              # carries[c][FirstDone(c)].val

\* C4: a call with max_steps == 0 never executes cond_fn or body_fn, builds
\* no augmented state, and once it has left its entry it has returned
\* init_val as an ordinary value.
C4_ZeroStepsReturnsInit ==
    \A c \in DOMAIN pc :
        max_steps[c] = PyInt(0) =>
            /\ calls[c] = <<>>
            /\ carries[c] = <<>>
            /\ pc[c] # "entry" =>
                  pc[c] = "returned" /\ outcome[c] = Ordinary(init_val[c])

C4_Witness ==
    \E c \in DOMAIN pc :
        /\ max_steps[c] = PyInt(0)
        /\ pc[c] = "returned"
        /\ cond_fn[c][init_val[c]]
        /\ body_fn[c][init_val[c]] # init_val[c]

\* C5: a call whose max_steps is negative or not an int executes neither
\* cond_fn nor body_fn, builds no augmented state and runs no step; the one
\* thing it does is raise the ValueError naming max_steps.
C5_InvalidMaxStepsRaisesFirst ==
    \A c \in DOMAIN pc :
        (max_steps[c].type # "int" \/ max_steps[c].num < 0) =>
            /\ calls[c] = <<>>
            /\ carries[c] = <<>>
            /\ pc[c] \in {"entry", "raised"}
            /\ pc[c] = "entry" => outcome[c] = Pending
            /\ pc[c] = "raised" =>
                  /\ outcome[c].kind = "ValueError"
                  /\ outcome[c].val = <<>>
                  /\ Mentions(outcome[c].msg, "max_steps")
                  /\ Mentions(outcome[c].msg, "non-negative")

C5_Witness ==
    \E c \in DOMAIN pc :
        /\ pc[c] = "raised"
        /\ max_steps[c].type = "float"
        /\ cond_fn[c][init_val[c]]

\* C6: if cond_fn first becomes false after k applications of body_fn, then
\* at every point of the call body_fn has been executed at most k times, and
\* exactly k times from the step that sets done onwards.
C6_BodyAtMostKTimes ==
    \A c \in DOMAIN pc : \A k \in StoppingSteps :
        StopsAt(c, k) =>
            /\ BodyCount(c) <= k
            /\ DoneAt(c) # {} => BodyCount(c) = k

\* The loop stopped after two applications and a no-op step followed.
C6_Witness ==
    \E c \in DOMAIN pc :
        /\ pc[c] = "returned"
        /\ StopsAt(c, 2)
        /\ max_steps[c].num >= 4
        /\ BodyCount(c) = 2

\* C7: the carry value of every returned call equals the final val of the
\* reference while loop bounded by max_steps.
C7_RefinesBoundedWhile ==
    \A c \in DOMAIN pc :
        pc[c] = "returned" => outcome[c].val = <<WhileRef(c, init_val[c], 0)>>

\* The bound cut the loop after two applications of body_fn.
C7_Witness ==
    \E c \in DOMAIN pc :
        /\ pc[c] = "returned"
        /\ max_steps[c] = PyInt(2)
        /\ CondHoldsBefore(c, 3)
        /\ outcome[c].val = <<Iterate(c, 2)>>
        /\ Iterate(c, 2) # Iterate(c, 1)

C10_DoneIsLatch ==
    \A c \in DOMAIN pc :
        /\ carries[c] # <<>> => ~carries[c][1].done
        /\ \A i \in DOMAIN carries[c] : \A j \in DOMAIN carries[c] :
              (i <= j /\ carries[c][i].done) => carries[c][j].done

C10_Witness ==
    \E c \in DOMAIN pc :
        /\ pc[c] = "returned"
        /\ DoneAt(c) # {}
        /\ FirstDone(c) >= 3
        /\ FirstDone(c) < Len(carries[c])

----------------------------------------------------------------------------
\* Vocabulary of the step properties: what one scan step of call c did.

\* The transition is a scan step of call c.
StepTaken(c) ==
    /\ carries[c] # <<>>
    /\ Len(carries'[c]) = Len(carries[c]) + 1

\* The executions of cond_fn and body_fn made by the step.
StepCalls(c) == SubSeq(calls'[c], Len(calls[c]) + 1, Len(calls'[c]))

CondCall(v) == [fn |-> "cond_fn", arg |-> v]
BodyCall(v) == [fn |-> "body_fn", arg |-> v]

\* C11: a scan step taken from a carry with done set yields (val, TRUE) with
\* val unchanged and executes neither cond_fn nor body_fn; so every carry
\* from the first one with done set onwards is that same carry.
C11_DoneStepIsNoOp ==
    /\ [][\A c \in DOMAIN pc :
            (StepTaken(c) /\ Last(carries[c]).done) =>
                /\ Last(carries'[c])
                      = [val |-> Last(carries[c]).val, done |-> TRUE]
                /\ StepCalls(c) = <<>>]_vars
    /\ [](\A c \in DOMAIN pc : \A i \in DoneAt(c) :
            carries[c][i] = carries[c][FirstDone(c)])

\* Two no-op steps were taken after the step that set done, on a carry that
\* body_fn would have changed and at which cond_fn is false.
C11_Witness ==
    \E c \in DOMAIN pc :
        /\ DoneAt(c) # {}
        /\ FirstDone(c) + 2 <= Len(carries[c])
        /\ body_fn[c][Last(carries[c]).val] # Last(carries[c]).val
        /\ Last(carries[c]).val # init_val[c]

\* C12: a scan step taken from a carry (val, FALSE) evaluates cond_fn on
\* val; when it is true the step executes body_fn on val and yields
\* (body_fn(val), FALSE); when it is false the step executes no body_fn and
\* yields (val, TRUE).
C12_ActiveStep ==
    [][\A c \in DOMAIN pc :
          (StepTaken(c) /\ ~Last(carries[c]).done) =>
              LET val == Last(carries[c]).val
              IN  IF cond_fn[c][val]
                  THEN /\ Last(carries'[c])
                             = [val |-> body_fn[c][val], done |-> FALSE]
                       /\ StepCalls(c) = <<CondCall(val), BodyCall(val)>>
                  ELSE /\ Last(carries'[c]) = [val |-> val, done |-> TRUE]
                       /\ StepCalls(c) = <<CondCall(val)>>]_vars

\* A step applied body_fn and changed the carry, and the next step found
\* cond_fn false on a carry that body_fn would have changed again.
C12_Witness ==
    \E c \in DOMAIN pc :
        /\ Len(carries[c]) >= 3
        /\ carries[c][2] = [val |-> body_fn[c][init_val[c]], done |-> FALSE]
        /\ carries[c][2].val # init_val[c]
        /\ carries[c][3] = [val |-> carries[c][2].val, done |-> TRUE]
        /\ body_fn[c][carries[c][3].val] # carries[c][3].val

\* The step transition, restated on the bare carry.
StepOf(c, carry) ==
    IF carry.done THEN carry
    ELSE IF cond_fn[c][carry.val]
         THEN [val |-> body_fn[c][carry.val], done |-> FALSE]
         ELSE [val |-> carry.val, done |-> TRUE]

\* The number of scan steps call c has taken.
StepsTaken(c) == Len(carries[c]) - 1

\* What C13 says of the states of a call c with max_steps >= 1.
RunsExactlyMaxSteps(c) ==
    /\ pc[c] \in {"entry", "scan", "returned"}
    /\ pc[c] = "entry" => carries[c] = <<>>
    /\ pc[c] # "entry" =>
          /\ carries[c] # <<>>
          /\ carries[c][1] = [val |-> init_val[c], done |-> FALSE]
          /\ StepsTaken(c) <= max_steps[c].num
          /\ \A i \in 1..StepsTaken(c) :
                carries[c][i + 1] = StepOf(c, carries[c][i])
    /\ (pc[c] = "scan" /\ StepsTaken(c) < max_steps[c].num) =>
          ENABLED ScanStep(c) /\ ~ENABLED Guard(c)
    /\ (pc[c] = "scan" /\ StepsTaken(c) = max_steps[c].num) =>
          ENABLED Guard(c) /\ ~ENABLED ScanStep(c)
    /\ pc[c] = "returned" =>
          /\ StepsTaken(c) = max_steps[c].num
          /\ outcome[c].val = <<Last(carries[c]).val>>
          /\ outcome[c].kind
                = IF Last(carries[c]).done THEN "value" ELSE "RuntimeError"

\* C13: a call with max_steps >= 1 starts from (init_val, FALSE), takes its
\* scan steps one after the other, each on the carry the one before left,
\* whatever the step at which cond_fn becomes false; it cannot return before
\* max_steps steps nor step after them, and it does return, the overflow
\* guard applied to the carry after step max_steps.
C13_ExactlyMaxStepsThenGuard ==
    /\ [](\A c \in DOMAIN pc :
            (ValidMaxSteps(c) /\ max_steps[c].num >= 1) =>
                RunsExactlyMaxSteps(c))
    /\ (ValidMaxSteps("a") /\ max_steps["a"].num >= 1)
          ~> (pc["a"] = "returned")

\* cond_fn was false at init_val, and the scan still took all its steps.
C13_Witness ==
    \E c \in DOMAIN pc :
        /\ pc[c] = "returned"
        /\ max_steps[c] = PyInt(MaxSteps)
        /\ ~cond_fn[c][init_val[c]]
        /\ StepsTaken(c) = MaxSteps
        /\ FirstDone(c) = 2

C15_CarryAfterSteps ==
    \A c \in DOMAIN pc :
        /\ carries[c] # <<>> => StepsTaken(c) <= max_steps[c].num
        /\ \A i \in 0..StepsTaken(c) :
              LET carry == carries[c][i + 1]
              IN  IF ~carry.done
                  THEN /\ carry.val = Iterate(c, i)
                       /\ CondHoldsBefore(c, i)
                  ELSE \E k \in 0..(i - 1) :
                          /\ carry.val = Iterate(c, k)
                          /\ ~cond_fn[c][carry.val]
                          /\ CondHoldsBefore(c, k)

\* After four steps: two applications that each changed the carry, the stop,
\* and a no-op.
C15_Witness ==
    \E c \in DOMAIN pc :
        /\ StepsTaken(c) = 4
        /\ StopsAt(c, 2)
        /\ Iterate(c, 1) # init_val[c]
        /\ Iterate(c, 2) # Iterate(c, 1)
        /\ ~carries[c][3].done
        /\ carries[c][4] = [val |-> Iterate(c, 2), done |-> TRUE]
        /\ carries[c][5] = carries[c][4]

CondCount(c) ==
    Cardinality({i \in DOMAIN calls[c] : calls[c][i].fn = "cond_fn"})

Min(x, y) == IF x <= y THEN x ELSE y

\* What C16 says of the executions one transition of call c adds.
CallsOfTransition(c) ==
    IF StepTaken(c) /\ ~Last(carries[c]).done
    THEN LET val == Last(carries[c]).val
         IN  \/ StepCalls(c) = <<CondCall(val)>>
             \/ /\ StepCalls(c) = <<CondCall(val), BodyCall(val)>>
                /\ cond_fn[c][val]
    ELSE calls'[c] = calls[c]

\* C16: cond_fn is evaluated exactly once in each scan step whose incoming
\* done is false and in no other step or statement; body_fn is executed
\* only in such a step, after that evaluation, on the value on which cond_fn
\* was just true.  So a returned call whose cond_fn first fails on
\* body_fn^k(init_val) has evaluated cond_fn min(k+1, max_steps) times and
\* executed body_fn min(k, max_steps) times.
C16_CallDiscipline ==
    /\ [][\A c \in DOMAIN pc : CallsOfTransition(c)]_vars
    /\ [](\A c \in DOMAIN pc : \A k \in StoppingSteps :
            (pc[c] = "returned" /\ StopsAt(c, k)) =>
                /\ CondCount(c) = Min(k + 1, max_steps[c].num)
                /\ BodyCount(c) = Min(k, max_steps[c].num))

\* One returned call stopped on cond_fn after two applications with a step
\* to spare: three evaluations, two applications.
C16_Witness ==
    \E c \in DOMAIN pc :
        /\ pc[c] = "returned"
        /\ max_steps[c] = PyInt(4)
        /\ StopsAt(c, 2)
        /\ calls[c] = <<CondCall(init_val[c]), BodyCall(init_val[c]),
                        CondCall(Iterate(c, 1)), BodyCall(Iterate(c, 1)),
                        CondCall(Iterate(c, 2))>>

====
